---- MODULE Spec2Model ----
(***************************************************************************)
(* Model of the scheduling and execution engine of czodiac-keepers-utils:  *)
(* the Sequence Executor (execute_multi_job) driving the Call Executor     *)
(* (execute_contract_method) from scheduler/utils/web3_utils, the Job      *)
(* Registry and Schedule Interpreter from scheduler/scheduler, the         *)
(* TimeWindow of scheduler/models and the Provider Failover Service of     *)
(* scheduler/utils/web3_service.  Each component has its own               *)
(* specification; the variables of the others stay at rest in it.          *)
(***************************************************************************)
EXTENDS Integers, Sequences, FiniteSets, TLC

\* ------------------------------------------------------------------------
\* Bounds and program constants
\* ------------------------------------------------------------------------

\* Longest declared step list explored.
MaxSteps == 2

\* @retry(..., tries=3, ...) on wait_for_transaction_receipt.
ReceiptTries == 3

\* An Optional value is the empty set (None) or a singleton.
None == {}

Some(x) == {x}

\* delay_between_jobs: Optional[float]; None is modelled as 0 (both falsy),
\* 1 stands for a positive delay, -1 for a negative one.
DelayValues == {0, 1, -1}

\* The job shapes a step list is built from: a ContractJob or a
\* ContractJobCustomArgs (custom), with its enabled and validate_before_send
\* flags.  The flags of a disabled job other than `enabled` are never read.
JobShapes ==
    { [enabled |-> TRUE, custom |-> c, validate_before_send |-> v] :
          c \in BOOLEAN, v \in BOOLEAN }
    \cup { [enabled |-> FALSE, custom |-> FALSE, validate_before_send |-> TRUE] }

JobLists == UNION { [1..n -> JobShapes] : n \in 1..MaxSteps }

\* Exception classes the environment can raise; all are subclasses of
\* Exception.  "Exception" stands for any class no handler names.
RetryableErrors == {"TransactionNotFound", "ConnectionError"}

VARIABLES
    multi_job,        \* the ContractJobMulti being executed
    mpc,              \* position of execute_multi_job
    i,                \* loop index of execute_multi_job (1-based)
    job_results,      \* list of (name, success, tx_hash, error)
    overall_success,
    multi_ret,        \* return value of execute_multi_job
    pc,               \* position of execute_contract_method
    call_ret,         \* what execute_contract_method produced
    tries,            \* attempts of wait_for_transaction_receipt so far
    waits,            \* the delays @retry slept between those attempts
    tx_hash,          \* tx_hash_hex of the current call, or None
    trace,            \* what each stage of the current call did
    started,          \* step indices handed to execute_contract_method
    sent,             \* transactions accepted by the network
    sleeps,           \* step indices after which time.sleep returned
    any_ret,          \* what execute_any_job returned, NoReturn before
    \* scheduler/scheduler.py
    _jobs,            \* the registry: (name, job) pairs in insertion order
    run_once,         \* the run_once argument of run_scheduler
    interval,         \* the interval argument of run_scheduler
    spc,              \* position of main / run_scheduler
    sidx,             \* position of the loop over _jobs.items()
    triggers,         \* the jobs the cadence engine holds
    executed,         \* the executions execute_any_job was called for
    registered,       \* per name, the job of its latest register_job call
    nregs,            \* register_job calls so far
    due,              \* names run_pending has still to run in this cycle
    cycle,            \* the names due in the current cycle and those run
    inflight,         \* the execution under way, or None
    aborted,          \* the execution an interrupt cut short, or None
    signal,           \* the termination signal received, or None
    exit_code,        \* what main returned, or None
    \* scheduler/models.py
    tw_window,        \* a TimeWindow
    tw_value,         \* the time handed to its contains()
    tw_result,        \* what contains() returned, or None before the call
    \* scheduler/utils/web3_service.py
    _providers,       \* per network, the cached provider or None
    _locks,           \* per network: "absent", "free" or the caller holding it
    _active_indices,  \* per network, the last-good index or None
    tpc,              \* per caller, its position in get_provider
    tnet,             \* per caller, the network argument
    start_index,      \* per caller, start_index of _connect_with_failover
    attempt,          \* per caller, attempt of _connect_with_failover
    last_error,       \* per caller, whether last_error is set
    call,             \* per caller, what its call has seen and done so far
    last,             \* per network, the last call that ended
    ncalls,           \* get_provider calls so far
    nhandles,         \* Web3 objects constructed so far
    econn,            \* the last connection the Call Executor asked for
    \* scheduler/scheduler.py: one job in the hands of the cadence engine
    schedule_parts,   \* schedule_parts of the job handed to _schedule_job
    epc,              \* whether the engine holds the job
    engine_job,       \* the trigger the engine holds, or None
    periods,          \* the intervals the engine drew for it, latest last
    \* scheduler/config.py: one call of get_network_config
    env,              \* per network, the items of its *_RPC_URL variable
    cfg_network,      \* the network argument
    cfg_pc,           \* position in get_network_config
    network_configs,  \* the NetworkConfig objects built so far, per network
    config_ret,       \* what get_network_config returned or raised
    \* custom/args/usdt_to_czusd_to_tokenburningandlp_workflow.py
    input_data,       \* min_swap_amount, max_swap_amount, random_precision
    balance_decimal,  \* the relayer's USDT balance
    swap_pc,          \* position in calculate_args
    max_available_decimal,  \* min(balance_decimal, max_swap_amount), or None
    swap_amount_decimal     \* what _select_swap_amount returned, or None

execVars == << multi_job, mpc, i, job_results, overall_success, multi_ret,
               pc, call_ret, tries, waits, tx_hash, trace, started,
               sent, sleeps, any_ret >>

schedVars == << _jobs, run_once, interval, spc, sidx, triggers, executed, registered, nregs,
                due, cycle, inflight, aborted, signal, exit_code >>

twVars == << tw_window, tw_value, tw_result >>

svcVars == << _providers, _locks, _active_indices, tpc, tnet, start_index,
              attempt, last_error, call, last, ncalls, nhandles, econn >>

engineVars == << schedule_parts, epc, engine_job, periods >>

\* The components that have a specification of their own further down.
configVars == << env, cfg_network, cfg_pc, network_configs, config_ret >>

swapVars == << input_data, balance_decimal, swap_pc, max_available_decimal,
               swap_amount_decimal >>

otherVars == << engineVars, configVars, swapVars >>

vars == << execVars, schedVars, twVars, svcVars, otherVars >>

\* What a step of execute_multi_job leaves alone: the other components and
\* the result of its caller.
restOfExec == << schedVars, twVars, svcVars, otherVars, any_ret >>

\* What an action of the scheduler leaves alone.
restOfSched == << execVars, twVars, svcVars, otherVars >>

\* What the call of TimeWindow.contains leaves alone.
restOfTw == << execVars, schedVars, svcVars, otherVars >>

\* What an action of the provider service leaves alone.
restOfSvc == << execVars, schedVars, twVars, otherVars >>

\* What the cadence engine leaves alone.
restOfEngine == << execVars, schedVars, twVars, svcVars, configVars, swapVars >>

\* What get_network_config leaves alone.
restOfConfig == << execVars, schedVars, twVars, svcVars, engineVars, swapVars >>

\* What calculate_args of the swap workflow leaves alone.
restOfSwap == << execVars, schedVars, twVars, svcVars, engineVars, configVars >>

multiVars == << mpc, i, job_results, overall_success, multi_ret, started, sleeps >>

jobs == multi_job.jobs
job == jobs[i]

\* ------------------------------------------------------------------------
\* execute_contract_method
\* ------------------------------------------------------------------------

\* str(e), with the prefix the handler puts before it.
ErrorText(prefix, e) == Some([prefix |-> prefix, e |-> e])

\* return success, tx_hash, error
Return(success, hash, error) ==
    [kind |-> "return", success |-> success, tx_hash |-> hash, error |-> error]

\* Nothing produced yet.
NoReturn == [kind |-> "none"]

\* An exception leaving the function.
Raise(e) == [kind |-> "raise", e |-> e]

\* A handler that lets the exception go on instead of returning.
OuterExcept_Reraise(e) == Raise(e)

\* except Exception as e: return False, None, str(e)
OuterExcept(e) == Return(FALSE, None, ErrorText("", e))

\* except Exception as e around calculate_custom_args
CustomArgsExcept(e) ==
    Return(FALSE, None, ErrorText("Failed to calculate custom arguments: ", e))

\* except ContractLogicError as e around estimate_gas; any other class goes
\* on to the outer handler.
EstimateExcept(e) ==
    IF e = "ContractLogicError"
    THEN Return(FALSE, None, ErrorText("Transaction would fail: ", e))
    ELSE OuterExcept(e)

\* A classification by the presence of a receipt, not by its status.
Classify_AnyReceipt(status, hash) == Return(TRUE, hash, None)

\* if receipt['status'] == 1 ... else ...
Classify(status, hash) ==
    IF status = 1
    THEN Return(TRUE, hash, None)
    ELSE Return(FALSE, hash, ErrorText("Transaction failed", ""))

\* A stage that completed moves on; one that raised ends the call with what
\* its handler returns.
Advance(stage, next) ==
    /\ pc' = next
    /\ trace' = Append(trace, <<stage, "ok">>)
    /\ UNCHANGED call_ret

Fail(stage, e, outcome) ==
    /\ pc' = "returned"
    /\ trace' = Append(trace, <<stage, e>>)
    /\ call_ret' = outcome

\* A stage with no handler of its own: web3 = get_web3_provider(...),
\* account = ...from_key(get_private_key()), get_contract_instance(...),
\* method(*method_args), the nonce and gas price, build_transaction,
\* sign_transaction and the raw transaction extraction.
PlainStage(stage, next) ==
    /\ mpc = "call"
    /\ pc = stage
    /\ \/ Advance(stage, next)
       \/ Fail(stage, "Exception", OuterExcept("Exception"))
    /\ UNCHANGED << restOfExec, multi_job, multiVars, tries, waits, tx_hash,
                    sent >>

get_web3_provider == PlainStage("provider", "account")

from_key == PlainStage("account", "contract")

get_contract_instance ==
    PlainStage("contract", IF job.custom THEN "args" ELSE "method")

\* calculate_custom_args: import_calculator raises FileNotFoundError for a
\* missing module, the hasattr check raises AttributeError for a missing
\* function, and the calculator itself may raise; all are re-raised.
PluginErrors == {"FileNotFoundError", "AttributeError", "Exception"}

\* A plugin failure that is logged and then ignored.
calculate_custom_args_Swallow ==
    /\ mpc = "call"
    /\ pc = "args"
    /\ \/ Advance("args", "method")
       \/ \E e \in PluginErrors :
              /\ pc' = "method"
              /\ trace' = Append(trace, <<"args", e>>)
              /\ UNCHANGED call_ret
    /\ UNCHANGED << restOfExec, multi_job, multiVars, tries, waits, tx_hash,
                    sent >>

calculate_custom_args ==
    /\ mpc = "call"
    /\ pc = "args"
    /\ \/ Advance("args", "method")
       \/ \E e \in PluginErrors : Fail("args", e, CustomArgsExcept(e))
    /\ UNCHANGED << restOfExec, multi_job, multiVars, tries, waits, tx_hash,
                    sent >>

build_method ==
    PlainStage("method", IF job.validate_before_send THEN "estimate" ELSE "params")

\* A rejected simulation that falls back to the default gas limit.
estimate_gas_Fallback ==
    /\ mpc = "call"
    /\ pc = "estimate"
    /\ \/ Advance("estimate", "params")
       \/ /\ pc' = "params"
          /\ trace' = Append(trace, <<"estimate", "ContractLogicError">>)
          /\ UNCHANGED call_ret
       \/ Fail("estimate", "Exception", EstimateExcept("Exception"))
    /\ UNCHANGED << restOfExec, multi_job, multiVars, tries, waits, tx_hash,
                    sent >>

\* gas_estimate = contract_method.estimate_gas(...) under
\* validate_before_send.
estimate_gas ==
    /\ mpc = "call"
    /\ pc = "estimate"
    /\ \/ Advance("estimate", "params")
       \/ \E e \in {"ContractLogicError", "Exception"} :
              Fail("estimate", e, EstimateExcept(e))
    /\ UNCHANGED << restOfExec, multi_job, multiVars, tries, waits, tx_hash,
                    sent >>

tx_params == PlainStage("params", "build")

build_transaction == PlainStage("build", "sign")

sign_transaction == PlainStage("sign", "send")

\* tx_hash = web3.eth.send_raw_transaction(raw_tx): the network either
\* accepts the transaction and returns its hash, or the call raises.
send_raw_transaction ==
    /\ mpc = "call"
    /\ pc = "send"
    /\ \/ /\ Advance("send", "receipt")
          /\ tx_hash' = Some(i)
          /\ sent' = sent \cup {i}
       \/ /\ Fail("send", "Exception", OuterExcept("Exception"))
          /\ UNCHANGED << tx_hash, sent >>
    /\ UNCHANGED << restOfExec, multi_job, multiVars, tries, waits >>

\* The receipt a finished wait hands back, as the trace shows it.
Status(status) == IF status = 1 THEN "status 1" ELSE "status 0"

\* @retry(..., delay=5, backoff=2, ...)
RetryDelay == 5

RetryBackoff == 2

\* The exceptions @retry catches.
Retried_Any(e) == TRUE

Retried(e) == e \in RetryableErrors

\* What @retry sleeps after the n-th failed attempt: _delay starts at delay
\* and is multiplied by backoff after each sleep.
SleepAfter(n) == RetryDelay * RetryBackoff ^ (n - 1)

\* One attempt of wait_for_transaction_receipt under @retry: a listed
\* exception is retried after a sleep while attempts remain, the last
\* attempt's exception and any unlisted one propagate to the outer handler.
wait_for_transaction_receipt ==
    /\ mpc = "call"
    /\ pc = "receipt"
    /\ tries < ReceiptTries
    /\ tries' = tries + 1
    /\ \/ /\ \E status \in {0, 1} :
                 /\ pc' = "returned"
                 /\ trace' = Append(trace, <<"receipt", Status(status)>>)
                 /\ call_ret' = Classify(status, tx_hash)
          /\ UNCHANGED waits
       \/ \E e \in RetryableErrors \cup {"Exception"} :
              IF Retried(e) /\ tries + 1 < ReceiptTries
              THEN /\ trace' = Append(trace, <<"receipt", e>>)
                   /\ waits' = Append(waits, SleepAfter(tries + 1))
                   /\ UNCHANGED << pc, call_ret >>
              ELSE /\ Fail("receipt", e, OuterExcept(e))
                   /\ UNCHANGED waits
    /\ UNCHANGED << restOfExec, multi_job, multiVars, tx_hash, sent >>

\* ------------------------------------------------------------------------
\* execute_multi_job
\* ------------------------------------------------------------------------

Result(name, success, hash, error) ==
    [name |-> name, success |-> success, tx_hash |-> hash, error |-> error]

MultiReturn(success, results, error) ==
    [kind |-> "return", overall_success |-> success, job_results |-> results,
     error |-> error]

callVars == << pc, call_ret, tries, waits, tx_hash, trace, sent >>

\* A disabled step recorded as a failure.
SkippedResult_Failed(name) ==
    Result(name, FALSE, None, ErrorText("Skipped - disabled", ""))

\* job_results.append((job.name, True, None, "Skipped - disabled"))
SkippedResult(name) ==
    Result(name, TRUE, None, ErrorText("Skipped - disabled", ""))

\* A loop without the break.
AfterRecord_NoBreak(success) == "delay"

\* if not success: ... if multi_job.stop_on_failure: break
AfterRecord(success) ==
    IF ~success /\ multi_job.stop_on_failure THEN "exit" ELSE "delay"

\* An iteration that does not move on.
NextIndex_Stuck(k) == k

\* The index enumerate() hands to the next iteration.
NextIndex(k) == k + 1

\* if not job.enabled: job_results.append(...); continue
SkipDisabled ==
    /\ mpc = "loop"
    /\ i <= Len(jobs)
    /\ ~job.enabled
    /\ job_results' = Append(job_results, SkippedResult(i))
    /\ i' = NextIndex(i)
    /\ UNCHANGED << restOfExec, multi_job, mpc, overall_success, multi_ret, started, sleeps, callVars >>

\* success, tx_hash, error = execute_contract_method(job): the call begins.
StartJob ==
    /\ mpc = "loop"
    /\ i <= Len(jobs)
    /\ job.enabled
    /\ mpc' = "call"
    /\ pc' = "provider"
    /\ call_ret' = NoReturn
    /\ tries' = 0
    /\ waits' = << >>
    /\ tx_hash' = None
    /\ trace' = << >>
    /\ started' = Append(started, i)
    /\ UNCHANGED << restOfExec, multi_job, i, job_results, overall_success, multi_ret, sent, sleeps >>

\* The call is back: record it, update overall_success, break on a failure
\* under stop_on_failure.  An exception out of the call reaches the
\* function's own handler.
RecordResult ==
    /\ mpc = "call"
    /\ pc = "returned"
    /\ pc' = "idle"
    /\ IF call_ret.kind = "raise"
       THEN /\ mpc' = "done"
            /\ multi_ret' = MultiReturn(FALSE, job_results, ErrorText("", call_ret.e))
            /\ UNCHANGED << job_results, overall_success >>
       ELSE /\ job_results' = Append(job_results,
                   Result(i, call_ret.success, call_ret.tx_hash, call_ret.error))
            /\ overall_success' = (overall_success /\ call_ret.success)
            /\ mpc' = AfterRecord(call_ret.success)
            /\ UNCHANGED multi_ret
    /\ UNCHANGED << restOfExec, multi_job, i, started, sleeps, call_ret, tries, waits,
                    tx_hash, trace, sent >>

\* A delay that is also taken after the last step.
ShouldDelay_AlsoLast(delay, k, n) == delay # 0

\* if multi_job.delay_between_jobs and i < len(multi_job.jobs) - 1
ShouldDelay(delay, k, n) == delay # 0 /\ k < n

\* if multi_job.delay_between_jobs and i < len(multi_job.jobs) - 1:
\*     time.sleep(multi_job.delay_between_jobs)
\* time.sleep raises ValueError for a negative length; the function's handler
\* turns it into return False, job_results, str(e).
InterJobDelay ==
    /\ mpc = "delay"
    /\ IF ShouldDelay(multi_job.delay_between_jobs, i, Len(jobs))
       THEN IF multi_job.delay_between_jobs < 0
            THEN /\ mpc' = "done"
                 /\ multi_ret' = MultiReturn(FALSE, job_results, ErrorText("", "ValueError"))
                 /\ UNCHANGED << i, sleeps >>
            ELSE /\ sleeps' = Append(sleeps, i)
                 /\ i' = NextIndex(i)
                 /\ mpc' = "loop"
                 /\ UNCHANGED multi_ret
       ELSE /\ i' = NextIndex(i)
            /\ mpc' = "loop"
            /\ UNCHANGED << multi_ret, sleeps >>
    /\ UNCHANGED << restOfExec, multi_job, job_results, overall_success, started, callVars >>

\* The for loop ran out of jobs.
LoopEnd ==
    /\ mpc = "loop"
    /\ i > Len(jobs)
    /\ mpc' = "exit"
    /\ UNCHANGED << restOfExec, multi_job, i, job_results, overall_success, multi_ret,
                    started, sleeps, callVars >>

\* return overall_success, job_results, None
ReturnMulti ==
    /\ mpc = "exit"
    /\ mpc' = "done"
    /\ multi_ret' = MultiReturn(overall_success, job_results, None)
    /\ UNCHANGED << restOfExec, multi_job, i, job_results, overall_success, started, sleeps, callVars >>

\* ------------------------------------------------------------------------
\* execute_any_job
\* ------------------------------------------------------------------------

\* f"Multi-job completed: {len(successful_jobs)}/{len(job_results)} jobs
\* successful"
Completed(n, m) == [text |-> "Multi-job completed", n |-> n, m |-> m]

\* f"Multi-job failed: {len(failed_jobs)} job(s) failed"
Failed(k) == [text |-> "Multi-job failed", k |-> k]

\* execute_any_job for a ContractJobMulti, from what execute_multi_job
\* returned.
SummaryOf(ret) ==
    IF ret.overall_success
    THEN Return(TRUE,
                Some(Completed(
                    Cardinality({ k \in DOMAIN ret.job_results :
                                     ret.job_results[k].success }),
                    Len(ret.job_results))),
                None)
    ELSE Return(FALSE,
                Some(Failed(
                    Cardinality({ k \in DOMAIN ret.job_results :
                                     ~ret.job_results[k].success }))),
                ret.error)

\* execute_multi_job is back and execute_any_job returns the summary.
execute_any_job ==
    /\ mpc = "done"
    /\ any_ret = NoReturn
    /\ any_ret' = SummaryOf(multi_ret)
    /\ UNCHANGED << schedVars, twVars, svcVars, otherVars, multi_job, multiVars,
                    callVars >>

\* ------------------------------------------------------------------------
\* scheduler/models.py: TimeWindow
\* ------------------------------------------------------------------------

\* Times of day in half hours: 0 is 00:00, 2 is 01:00, 47 is 23:30.
DaySlots == 48

Times == 0..(DaySlots - 1)

TimeWindow(start, end) == [start |-> start, end |-> end]

\* validate_window: start and end must differ.
TimeWindows ==
    { TimeWindow(s, e) : s \in Times, e \in Times } \ { TimeWindow(t, t) : t \in Times }

\* A containment that leaves the end of the window out.
contains_EndExclusive(w, value) ==
    IF w.start <= w.end
    THEN w.start <= value /\ value < w.end
    ELSE value >= w.start \/ value < w.end

\* TimeWindow.contains
contains(w, value) ==
    IF w.start <= w.end
    THEN w.start <= value /\ value <= w.end
    ELSE value >= w.start \/ value <= w.end

\* A call of contains() on a window, made once.
apply_contains ==
    /\ tw_result = None
    /\ tw_result' = Some(contains(tw_window, tw_value))
    /\ UNCHANGED << restOfTw, tw_window, tw_value >>

\* No TimeWindow in the picture.
WindowIdle ==
    /\ tw_window = TimeWindow(0, 1)
    /\ tw_value = 0
    /\ tw_result = None

\* ------------------------------------------------------------------------
\* scheduler/scheduler.py: the registry and the schedule interpreter
\* ------------------------------------------------------------------------

\* register_job calls explored, and executions fired by the poll loop.
MaxRegs == 3

MaxFires == 2

Names == {"A", "B"}

\* --interval: type=int, default 1; argparse takes a negative number too.
Intervals == {-1, 1}

\* job.schedule after strip().split(), in lower case; << >> is the empty or
\* absent schedule.
Schedules ==
    { << >>,
      <<"hourly">>,
      <<"daily", "at", "10:30">>,
      <<"every", "day", "at", "10:30">>,
      <<"every", "day", "at", "25:00">>,
      <<"every", "monday", "at", "10:30">>,
      <<"every", "funday", "at", "10:30">>,
      <<"every", "5", "to", "10", "minutes">>,
      <<"every", "10", "to", "5", "minutes">>,
      <<"every", "x", "to", "10", "minutes">>,
      <<"every", "5", "to", "10", "fortnights">>,
      <<"every", "5", "minutes">>,
      <<"every", "five", "minutes">>,
      <<"every", "5", "fortnights">> }

\* allowed_time_windows of the sequence in config.py: 01:00 to 12:00.
ConfiguredWindows == << TimeWindow(2, 24) >>

\* A registered entry: its enabled flag, its schedule and, for a
\* ContractJobMulti, its allowed_time_windows.  The fields no line of the
\* scheduler or of the executors reads (retry_config among them) are left
\* out: an entry stands for the jobs of every value of those.
Entries ==
    [enabled : BOOLEAN, schedule : Schedules,
     allowed_time_windows : {None, Some(ConfiguredWindows)}]

Weekdays == {"monday", "tuesday", "wednesday", "thursday", "friday",
             "saturday", "sunday"}

\* The unit names _schedule_job accepts, and the engine's unit for each.
Units == [second |-> "seconds", seconds |-> "seconds",
          minute |-> "minutes", minutes |-> "minutes",
          hour |-> "hours", hours |-> "hours"]

\* int(token): the tokens it parses; any other raises ValueError.
IntOf == [t \in {"5", "10"} |-> IF t = "5" THEN 5 ELSE 10]

IsInt(token) == token \in DOMAIN IntOf

\* The time strings the cadence engine's at() accepts; it raises
\* ScheduleValueError for any other.
ValidTimes == {"10:30"}

\* What _schedule_job does for a job: a trigger handed to the engine, no
\* trigger (skipped silently or after a logged error), or an exception of the
\* engine that no handler catches.
Trigger(name, cadence, lo, hi, at) ==
    [outcome |-> "trigger",
     trigger |-> [name |-> name, cadence |-> cadence, lo |-> lo, hi |-> hi, at |-> at]]

NoTrigger(why) == [outcome |-> why]

\* schedule.every().<day>.at(time_spec).do(executor)
At(name, day, time_spec) ==
    IF Len(time_spec) = 1 /\ time_spec[1] \in ValidTimes
    THEN Trigger(name, day, 1, 1, time_spec[1])
    ELSE NoTrigger("raise")

\* schedule.every(lo).<unit>.do(executor): the upper end is dropped.
EveryTo_Fixed(name, lo, hi, unit) ==
    IF hi >= lo THEN Trigger(name, unit, lo, lo, "") ELSE NoTrigger("raise")

\* schedule.every(lo).to(hi).<unit>.do(executor): the engine raises
\* ScheduleError when hi is below lo.
EveryTo(name, lo, hi, unit) ==
    IF hi >= lo THEN Trigger(name, unit, lo, hi, "") ELSE NoTrigger("raise")

\* schedule.every(interval).<unit>.do(executor)
Every(name, every, unit) == Trigger(name, unit, every, every, "")

\* _schedule_job: the trigger a schedule string becomes, if any.
_schedule_job(name, j) ==
    LET parts == j.schedule IN
    IF parts = << >> THEN NoTrigger("skip")
    ELSE IF Len(parts) < 2 THEN NoTrigger("error")
    ELSE IF parts[1] # "every" THEN NoTrigger("error")
    ELSE IF Len(parts) >= 3 /\ parts[3] = "at"
    THEN IF parts[2] = "day" \/ parts[2] \in Weekdays
         THEN At(name, parts[2], SubSeq(parts, 4, Len(parts)))
         ELSE NoTrigger("skip")
    ELSE IF Len(parts) >= 4 /\ parts[3] = "to"
    THEN IF ~IsInt(parts[2]) \/ ~IsInt(parts[4]) THEN NoTrigger("error")
         ELSE LET unit == IF Len(parts) > 4 THEN parts[5] ELSE "" IN
              IF unit \in DOMAIN Units
              THEN EveryTo(name, IntOf[parts[2]], IntOf[parts[4]], Units[unit])
              ELSE NoTrigger("error")
    ELSE IF ~IsInt(parts[2]) \/ Len(parts) < 3 THEN NoTrigger("error")
         ELSE IF parts[3] \in DOMAIN Units
              THEN Every(name, IntOf[parts[2]], Units[parts[3]])
              ELSE NoTrigger("error")

\* The position of a name in _jobs, 0 when absent.
IndexOf(js, name) ==
    IF \E k \in DOMAIN js : js[k].name = name
    THEN CHOOSE k \in DOMAIN js : js[k].name = name
    ELSE 0

\* A registry that keeps the entry a name already has.
Store_KeepFirst(js, name, j) ==
    IF IndexOf(js, name) # 0 THEN js
    ELSE Append(js, [name |-> name, job |-> j])

\* _jobs[job.name] = job
Store(js, name, j) ==
    IF IndexOf(js, name) # 0
    THEN [js EXCEPT ![IndexOf(js, name)] = [name |-> name, job |-> j]]
    ELSE Append(js, [name |-> name, job |-> j])

\* _jobs.get(job_name)
Lookup(js, name) ==
    IF IndexOf(js, name) # 0 THEN Some(js[IndexOf(js, name)].job) ELSE None

\* A scheduler that does not look at the enabled flag.
ShouldSchedule_All(j) == TRUE

\* if job.enabled: _schedule_job(job)
ShouldSchedule(j) == j.enabled

\* if job.enabled: executor = _job_executor(job_name); executor()
ShouldRunOnce(name, j) == j.enabled

\* The execution the executor of a name starts at time-of-day now: the job
\* it finds under the name is handed to execute_any_job.
Execution(name, via, now) ==
    LET found == Lookup(_jobs, name) IN
    IF found = None THEN << >>
    ELSE LET j == CHOOSE x \in found : TRUE IN
         << [name |-> name, job |-> j, via |-> via, stage |-> "running",
             in_window |-> (j.allowed_time_windows = None
                            \/ \E ws \in j.allowed_time_windows :
                                   \E k \in DOMAIN ws : contains(ws[k], now))] >>

\* The signals _handle_signals installs handle_exit_signal for.
Signals == {"SIGINT", "SIGTERM"}

\* No poll cycle under way.
NoCycle == [due |-> << >>, done |-> << >>]

\* An executor that lets the failure of its job out as an exception.
ExecutorOutcome_Raises(success) == IF success THEN "returned" ELSE "raised"

\* execute(): success and failure are both logged and the executor returns.
ExecutorOutcome(success) == "returned"

\* What is left to run in the cycle after an execution: an executor that
\* keeps a failed entry in place to run it again.
AfterRun_RetryFailed(rest, success) == IF success THEN Tail(rest) ELSE rest

\* execute() returns whatever the outcome, and run_pending goes on to the
\* next due trigger.
AfterRun(rest, success) == Tail(rest)

\* An execution starts: the executor hands the job to execute_any_job.
Start(e) == inflight' = Some(e)

\* main: for job in jobs_to_run: register_job(job)
register_job ==
    /\ spc = "main"
    /\ nregs < MaxRegs
    /\ \E name \in Names, j \in Entries :
           /\ _jobs' = Store(_jobs, name, j)
           /\ registered' = [registered EXCEPT ![name] = Some(j)]
    /\ nregs' = nregs + 1
    /\ UNCHANGED << restOfSched, run_once, interval, spc, sidx, triggers, executed,
                    due, cycle, inflight, aborted, signal, exit_code >>

\* main: if not jobs_to_run: return 1
main_no_jobs ==
    /\ spc = "main"
    /\ nregs = 0
    /\ spc' = "nojobs"
    /\ exit_code' = Some(1)
    /\ UNCHANGED << restOfSched, _jobs, run_once, interval, sidx, triggers, executed,
                    registered, nregs, due, cycle, inflight, aborted, signal >>

\* main calls run_scheduler once the jobs are registered.  run_scheduler up
\* to _schedule_all_jobs: return at once when nothing is registered.
run_scheduler ==
    /\ spc = "main"
    /\ nregs > 0
    /\ IF _jobs = << >>
       THEN spc' = "returned"
       ELSE spc' = "schedule"
    /\ sidx' = 1
    /\ UNCHANGED << restOfSched, _jobs, run_once, interval, triggers, executed, registered,
                    nregs, due, cycle, inflight, aborted, signal, exit_code >>

\* One iteration of _schedule_all_jobs.  It runs before the try statement of
\* run_scheduler, so an exception of the engine leaves run_scheduler.
_schedule_all_jobs ==
    /\ spc = "schedule"
    /\ sidx <= Len(_jobs)
    /\ LET e == _jobs[sidx]
           r == _schedule_job(e.name, e.job)
       IN  IF ~ShouldSchedule(e.job) \/ r.outcome \in {"skip", "error"}
           THEN /\ sidx' = sidx + 1
                /\ UNCHANGED << spc, triggers >>
           ELSE IF r.outcome = "raise"
           THEN /\ spc' = "raised"
                /\ UNCHANGED << sidx, triggers >>
           ELSE /\ triggers' = Append(triggers, r.trigger)
                /\ sidx' = sidx + 1
                /\ UNCHANGED spc
    /\ UNCHANGED << restOfSched, _jobs, run_once, interval, executed, registered, nregs,
                    due, cycle, inflight, aborted, signal, exit_code >>

\* _handle_signals(); try: if run_once: ... else: ...
enter_mode ==
    /\ spc = "schedule"
    /\ sidx > Len(_jobs)
    /\ spc' = IF run_once THEN "once" ELSE "poll"
    /\ sidx' = 1
    /\ UNCHANGED << restOfSched, _jobs, run_once, interval, triggers, executed, registered,
                    nregs, due, cycle, inflight, aborted, signal, exit_code >>

\* One iteration of the run-once loop over _jobs.items(): the executor of an
\* enabled entry is called, a disabled entry is passed over.
run_once_step ==
    /\ spc = "once"
    /\ sidx <= Len(_jobs)
    /\ inflight = None
    /\ LET e == _jobs[sidx] IN
       IF ShouldRunOnce(e.name, e.job)
       THEN /\ \E now \in Times : Start(Execution(e.name, "once", now)[1])
            /\ UNCHANGED sidx
       ELSE /\ sidx' = sidx + 1
            /\ UNCHANGED inflight
    /\ UNCHANGED << restOfSched, _jobs, run_once, interval, spc, triggers, executed,
                    registered, nregs, due, cycle, aborted, signal, exit_code >>

\* The run-once loop is over: finally: schedule.clear()
run_once_end ==
    /\ spc = "once"
    /\ sidx > Len(_jobs)
    /\ spc' = "returned"
    /\ triggers' = << >>
    /\ UNCHANGED << restOfSched, _jobs, run_once, interval, sidx, executed, registered,
                    nregs, due, cycle, inflight, aborted, signal, exit_code >>

\* schedule.run_pending(): the triggers the engine finds due are run one
\* after the other.
run_pending ==
    /\ spc = "poll"
    /\ cycle = NoCycle
    /\ due = << >>
    /\ inflight = None
    /\ \E ks \in (SUBSET DOMAIN triggers) \ {{}} :
           LET names == [k \in 1..Cardinality(ks) |->
                            triggers[CHOOSE x \in ks :
                                Cardinality({y \in ks : y < x}) = k - 1].name]
           IN  /\ Len(executed) + Len(names) <= MaxFires
               /\ due' = names
               /\ cycle' = [due |-> names, done |-> << >>]
    /\ UNCHANGED << restOfSched, _jobs, run_once, interval, spc, sidx, triggers, executed,
                    registered, nregs, inflight, aborted, signal, exit_code >>

\* run_pending runs the next due trigger: its executor is called.
run_job ==
    /\ spc = "poll"
    /\ due # << >>
    /\ inflight = None
    /\ \E now \in Times : Start(Execution(Head(due), "trigger", now)[1])
    /\ UNCHANGED << restOfSched, _jobs, run_once, interval, spc, sidx, triggers, executed,
                    registered, nregs, due, cycle, aborted, signal, exit_code >>

\* The execution under way gets as far as web3.eth.send_raw_transaction: a
\* call is submitted and its receipt is waited for.
submit ==
    /\ inflight # None
    /\ (CHOOSE e \in inflight : TRUE).stage = "running"
    /\ inflight' = { [e EXCEPT !.stage = "submitted"] : e \in inflight }
    /\ UNCHANGED << restOfSched, _jobs, run_once, interval, spc, sidx, triggers, executed,
                    registered, nregs, due, cycle, aborted, signal, exit_code >>

\* execute_any_job returns: the executor logs the outcome and returns to the
\* loop that called it.  An exception out of the executor would reach
\* except Exception of run_scheduler; finally: schedule.clear()
finish ==
    /\ inflight # None
    /\ LET e == CHOOSE x \in inflight : TRUE IN
       \E success \in BOOLEAN :
           /\ executed' = Append(executed,
                  [name |-> e.name, job |-> e.job, via |-> e.via,
                   in_window |-> e.in_window, success |-> success])
           /\ IF ExecutorOutcome(success) = "raised"
              THEN /\ spc' = "returned"
                   /\ triggers' = << >>
                   /\ due' = << >>
                   /\ UNCHANGED << sidx, cycle >>
              ELSE /\ IF e.via = "once"
                      THEN /\ sidx' = sidx + 1
                           /\ UNCHANGED << due, cycle >>
                      ELSE /\ due' = AfterRun(due, success)
                           /\ cycle' = [cycle EXCEPT !.done = Append(@, e.name)]
                           /\ UNCHANGED sidx
                   /\ UNCHANGED << spc, triggers >>
    /\ inflight' = None
    /\ UNCHANGED << restOfSched, _jobs, run_once, interval, registered, nregs, aborted,
                    signal, exit_code >>

\* time.sleep(interval) after run_pending returned, also when nothing was
\* due.  A negative interval makes it raise ValueError: except Exception of
\* run_scheduler is outside the while loop, so the loop is over;
\* finally: schedule.clear()
SleepOutcome(seconds) == IF seconds < 0 THEN "raised" ELSE "slept"

sleep ==
    /\ spc = "poll"
    /\ due = << >>
    /\ inflight = None
    /\ IF SleepOutcome(interval) = "raised"
       THEN /\ spc' = "returned"
            /\ triggers' = << >>
            /\ UNCHANGED cycle
       ELSE /\ cycle # NoCycle
            /\ cycle' = NoCycle
            /\ UNCHANGED << spc, triggers >>
    /\ UNCHANGED << restOfSched, _jobs, run_once, interval, sidx, executed,
                    registered, nregs, due, inflight, aborted, signal, exit_code >>

\* SIGINT or SIGTERM once _handle_signals has run: handle_exit_signal raises
\* KeyboardInterrupt where the main thread is.  No except Exception of the
\* executors catches it; except KeyboardInterrupt of run_scheduler does;
\* finally: schedule.clear()
handle_exit_signal ==
    /\ spc \in {"once", "poll"}
    /\ \E sig \in Signals : signal' = Some(sig)
    /\ aborted' = inflight
    /\ inflight' = None
    /\ due' = << >>
    /\ spc' = "returned"
    /\ triggers' = << >>
    /\ UNCHANGED << restOfSched, _jobs, run_once, interval, sidx, executed, registered,
                    nregs, cycle, exit_code >>

\* SIGINT before _handle_signals has run: KeyboardInterrupt reaches main.
default_int_handler ==
    /\ spc \in {"main", "schedule"}
    /\ signal' = Some("SIGINT")
    /\ spc' = "interrupted"
    /\ UNCHANGED << restOfSched, _jobs, run_once, interval, sidx, triggers, executed,
                    registered, nregs, due, cycle, inflight, aborted, exit_code >>

\* What main returns: 0 after run_scheduler returned, 130 from except
\* KeyboardInterrupt, 1 from except Exception.
ExitCode(at) ==
    IF at = "returned" THEN 0
    ELSE IF at = "interrupted" THEN 130
    ELSE 1

\* main returns.
main_return ==
    /\ spc \in {"returned", "interrupted", "raised"}
    /\ exit_code = None
    /\ exit_code' = Some(ExitCode(spc))
    /\ UNCHANGED << restOfSched, _jobs, run_once, interval, spc, sidx, triggers, executed,
                    registered, nregs, due, cycle, inflight, aborted, signal >>

\* ------------------------------------------------------------------------
\* scheduler/utils/web3_service.py: Web3ProviderService
\* ------------------------------------------------------------------------

\* get_provider calls explored, and the length of a network's rpc_urls.
MaxCalls == 3

NumEndpoints == 3

Networks == {"bsc", "polygon"}

Callers == {"t1", "t2"}

\* rpc_urls of a network, by index.
rpc_urls == 0..(NumEndpoints - 1)

\* Web3(Web3.HTTPProvider(rpc_url)): a new provider object bound to the
\* endpoint at an index.
Web3(id, index) == [id |-> id, index |-> index]

\* What is_connected() can do on a provider built in _connect_with_failover:
\* answer True, answer False, or raise.
ProbeOutcomes == {"up", "down", "error"}

\* One liveness check: the endpoint index, whether the provider was the
\* cached one or a new one, and what is_connected() did.
Probe(index, kind, outcome) == [index |-> index, kind |-> kind, outcome |-> outcome]

\* What one get_provider call saw and did: whether it arrived while another
\* caller was reconnecting the same network, whether it took the network's
\* lock, the cached provider and the
\* last-good index it found, the result of the call before it on the same
\* network, and its liveness checks in order.
NoCall ==
    [waited |-> FALSE, locked |-> FALSE, cached |-> None, active |-> None,
     before |-> NoReturn, probes |-> << >>, ret |-> NoReturn]

\* The callers inside the with block of a network.
Inside(network) ==
    { c \in Callers : tnet[c] = network /\ tpc[c] \in {"cached", "connect"} }

\* One lock for all the networks.
LockOf_Global(network) == "bsc"

\* self._locks.setdefault(network, ...): the lock is the network's own.
LockOf(network) == network

\* A with statement that does not wait for the lock.
CanEnter_Always(lock) == TRUE

\* threading.Lock: acquired only while no caller holds it.
CanEnter(lock) == lock = "free"

\* A start index that always begins at the primary endpoint.
StartIndex_Primary(active) == 0

\* start_index = self._active_indices.get(network, 0) % len(rpc_urls)
StartIndex(active) ==
    (IF active = None THEN 0 ELSE CHOOSE x \in active : TRUE) % NumEndpoints

\* A cache that is never reused.
CacheHit_Never(provider, connected) == FALSE

\* if provider and provider.is_connected()
CacheHit(provider, connected) == provider # None /\ connected

\* A failover that does not record the index it connected to.
RecordActive_Forget(active, index) == active

\* self._active_indices[network] = index
RecordActive(active, index) == Some(index)

\* A loop that gives up after its first endpoint.
LoopEnded_AfterFirst(n) == n >= 1

\* for attempt in range(len(rpc_urls)): the range is used up.
LoopEnded(n) == n >= NumEndpoints

\* ConnectionError(error_message): the message names network.value and
\* len(rpc_urls).
ConnectionError(network, tried) ==
    [kind |-> "raise", e |-> "ConnectionError", network |-> network, tried |-> tried]

\* An index that runs past the end of the list.
ProbeIndex_NoWrap(start, n) == start + n

\* index = (start_index + attempt) % len(rpc_urls)
ProbeIndex(start, n) == (start + n) % NumEndpoints

\* return provider
ReturnProvider(provider) == [kind |-> "provider", provider |-> provider]

\* A with statement that keeps the lock when it is left.
Leave_KeepLock(c, network, seen, result) ==
    /\ UNCHANGED _locks
    /\ tpc' = [tpc EXCEPT ![c] = "idle"]
    /\ tnet' = [tnet EXCEPT ![c] = "bsc"]
    /\ start_index' = [start_index EXCEPT ![c] = 0]
    /\ attempt' = [attempt EXCEPT ![c] = 0]
    /\ last_error' = [last_error EXCEPT ![c] = FALSE]
    /\ last' = [last EXCEPT ![network] =
                   [call[c] EXCEPT !.probes = seen, !.ret = result]]
    /\ call' = [call EXCEPT ![c] = NoCall]

\* The with statement is left, by return or by the exception: the lock is
\* released, the call is over and its argument and locals are gone.
Leave(c, network, seen, result) ==
    /\ _locks' = [_locks EXCEPT ![LockOf(network)] = "free"]
    /\ tpc' = [tpc EXCEPT ![c] = "idle"]
    /\ tnet' = [tnet EXCEPT ![c] = "bsc"]
    /\ start_index' = [start_index EXCEPT ![c] = 0]
    /\ attempt' = [attempt EXCEPT ![c] = 0]
    /\ last_error' = [last_error EXCEPT ![c] = FALSE]
    /\ last' = [last EXCEPT ![network] =
                   [call[c] EXCEPT !.probes = seen, !.ret = result]]
    /\ call' = [call EXCEPT ![c] = NoCall]

\* get_provider is called: lock = self._locks.setdefault(network, Lock())
get_provider(c) ==
    /\ tpc[c] = "idle"
    /\ ncalls < MaxCalls
    /\ \E network \in Networks :
           /\ tnet' = [tnet EXCEPT ![c] = network]
           /\ _locks' = [_locks EXCEPT ![LockOf(network)] =
                            IF @ = "absent" THEN "free" ELSE @]
           /\ call' = [call EXCEPT ![c] =
                          [NoCall EXCEPT !.waited =
                              \E d \in Inside(network) : tpc[d] = "connect"]]
    /\ tpc' = [tpc EXCEPT ![c] = "with"]
    /\ ncalls' = ncalls + 1
    /\ UNCHANGED << restOfSvc, _providers, _active_indices, start_index,
                    attempt, last_error, last, nhandles, econn >>

\* with lock: the caller enters once no other caller holds the lock.
acquire(c) ==
    /\ tpc[c] = "with"
    /\ CanEnter(_locks[LockOf(tnet[c])])
    /\ _locks' = [_locks EXCEPT ![LockOf(tnet[c])] = c]
    /\ tpc' = [tpc EXCEPT ![c] = "cached"]
    /\ call' = [call EXCEPT ![c] =
                   [call[c] EXCEPT !.locked = TRUE,
                                   !.cached = _providers[tnet[c]],
                                  !.active = _active_indices[tnet[c]],
                                  !.before = last[tnet[c]].ret]]
    /\ UNCHANGED << restOfSvc, _providers, _active_indices, tnet, start_index,
                    attempt, last_error, last, ncalls, nhandles, econn >>

\* provider = self._providers.get(network); a connected one is returned, and
\* otherwise _connect_with_failover is entered.
check_cached(c) ==
    /\ tpc[c] = "cached"
    /\ LET network == tnet[c]
           provider == _providers[network]
       IN  \E connected \in (IF provider = None THEN {FALSE} ELSE BOOLEAN) :
             LET seen == IF provider = None THEN call[c].probes
                         ELSE Append(call[c].probes,
                                  Probe((CHOOSE h \in provider : TRUE).index, "cached",
                                        IF connected THEN "up" ELSE "down"))
             IN IF CacheHit(provider, connected)
                THEN /\ Leave(c, network, seen,
                              ReturnProvider(CHOOSE h \in provider : TRUE))
                ELSE /\ tpc' = [tpc EXCEPT ![c] = "connect"]
                     /\ call' = [call EXCEPT ![c].probes = seen]
                     /\ start_index' = [start_index EXCEPT ![c] =
                                           StartIndex(_active_indices[network])]
                     /\ attempt' = [attempt EXCEPT ![c] = 0]
                     /\ last_error' = [last_error EXCEPT ![c] = FALSE]
                     /\ UNCHANGED << _locks, last, tnet >>
    /\ UNCHANGED << restOfSvc, _providers, _active_indices, ncalls, nhandles, econn >>

\* One iteration of the loop of _connect_with_failover.  On a live endpoint
\* the index is recorded, get_provider caches the provider and returns it.
probe_endpoint(c) ==
    /\ tpc[c] = "connect"
    /\ ~LoopEnded(attempt[c])
    /\ LET network == tnet[c]
           index == ProbeIndex(start_index[c], attempt[c])
           provider == Web3(nhandles + 1, index)
       IN  \E outcome \in ProbeOutcomes :
             LET seen == Append(call[c].probes, Probe(index, "new", outcome))
             IN IF outcome = "up"
                THEN /\ _active_indices' = [_active_indices EXCEPT ![network] =
                                               RecordActive(@, index)]
                     /\ _providers' = [_providers EXCEPT ![network] = Some(provider)]
                     /\ Leave(c, network, seen, ReturnProvider(provider))
                ELSE /\ attempt' = [attempt EXCEPT ![c] = @ + 1]
                     /\ last_error' = [last_error EXCEPT ![c] = @ \/ outcome = "error"]
                     /\ call' = [call EXCEPT ![c].probes = seen]
                     /\ UNCHANGED << _active_indices, _providers, _locks, tpc, last,
                                     tnet, start_index >>
    /\ nhandles' = nhandles + 1
    /\ UNCHANGED << restOfSvc, ncalls, econn >>

\* The loop ran out of endpoints: raise ConnectionError(error_message)
raise_ConnectionError(c) ==
    /\ tpc[c] = "connect"
    /\ LoopEnded(attempt[c])
    /\ Leave(c, tnet[c], call[c].probes, ConnectionError(tnet[c], NumEndpoints))
    /\ UNCHANGED << restOfSvc, _providers, _active_indices, ncalls, nhandles, econn >>

\* web3_utils.get_web3_provider, the connection execute_contract_method
\* uses: a new Web3 on network_config.rpc_url, the first of the network's
\* endpoints, and ConnectionError when is_connected() answers False.
web3_utils_get_web3_provider ==
    /\ ncalls < MaxCalls
    /\ ncalls' = ncalls + 1
    /\ nhandles' = nhandles + 1
    /\ \E network \in Networks, connected \in BOOLEAN :
           LET web3 == Web3(nhandles + 1, 0)
               seen == << Probe(0, "new", IF connected THEN "up" ELSE "down") >>
           IN  econn' = [network |-> network, probes |-> seen,
                         ret |-> IF connected THEN ReturnProvider(web3)
                                 ELSE Raise("ConnectionError")]
    /\ UNCHANGED << restOfSvc, _providers, _locks, _active_indices, tpc, tnet,
                    start_index, attempt, last_error, call, last >>

\* Web3ProviderService.__init__
ServiceStart ==
    /\ _providers = [n \in Networks |-> None]
    /\ _locks = [n \in Networks |-> "absent"]
    /\ _active_indices = [n \in Networks |-> None]
    /\ tpc = [c \in Callers |-> "idle"]
    /\ tnet = [c \in Callers |-> "bsc"]
    /\ start_index = [c \in Callers |-> 0]
    /\ attempt = [c \in Callers |-> 0]
    /\ last_error = [c \in Callers |-> FALSE]
    /\ call = [c \in Callers |-> NoCall]
    /\ last = [n \in Networks |-> NoCall]
    /\ ncalls = 0
    /\ nhandles = 0
    /\ econn = [network |-> "bsc", probes |-> << >>, ret |-> NoReturn]

\* No caller of the service in the picture.
ServiceIdle == ServiceStart

\* ------------------------------------------------------------------------
\* scheduler/scheduler.py: a job in the hands of the cadence engine
\* ------------------------------------------------------------------------

\* Intervals drawn for one job.
MaxDraws == 3

\* The schedules handed to _schedule_job here.
EngineSchedules ==
    Schedules \cup { <<"every", "5", "to", "5", "seconds">>,
                     <<"every", "5", "to", "10", "hours">>,
                     <<"every", "10", "to", "10", "minute">> }

\* The interval to the next run the engine may choose for a trigger: one
\* value of lo..hi, whatever it chose before (schedule.every(lo).to(hi):
\* a random interval between lo and hi, chosen anew for each run).
Draw(t) == t.lo .. t.hi

\* _schedule_job(job) for an enabled job: .do(executor) hands the trigger to
\* the engine, which fixes the interval to its first run.
do ==
    /\ epc = "start"
    /\ LET r == _schedule_job("A", [enabled |-> TRUE, schedule |-> schedule_parts,
                                    allowed_time_windows |-> None])
       IN  IF r.outcome = "trigger"
           THEN /\ epc' = "scheduled"
                /\ engine_job' = Some(r.trigger)
                /\ \E v \in Draw(r.trigger) : periods' = << v >>
           ELSE /\ epc' = r.outcome
                /\ UNCHANGED << engine_job, periods >>
    /\ UNCHANGED << restOfEngine, schedule_parts >>

\* The job is due and run_pending runs it; the engine then fixes the
\* interval v to its next run.
fire(v) ==
    /\ epc = "scheduled"
    /\ Len(periods) < MaxDraws
    /\ v \in Draw(CHOOSE t \in engine_job : TRUE)
    /\ periods' = Append(periods, v)
    /\ UNCHANGED << restOfEngine, schedule_parts, epc, engine_job >>

\* No job in the hands of the engine.
EngineIdle ==
    /\ schedule_parts = << >>
    /\ epc = "idle"
    /\ engine_job = None
    /\ periods = << >>

\* ------------------------------------------------------------------------
\* scheduler/config.py: get_network_config, and NetworkConfig of models.py
\* ------------------------------------------------------------------------

\* The members of Network, in the order of the network_configs literal.
NetworkOrder == << "ethereum", "bsc", "polygon", "arbitrum", "optimism" >>

AllNetworks == { NetworkOrder[k] : k \in DOMAIN NetworkOrder }

\* The value of a *_RPC_URL variable, as the items between its commas, each
\* stripped: "" is a blank item, << >> the unset or empty variable.
RawValues ==
    { << >>, << "" >>, << "a" >>, << "a", "b" >>, << "a", "a" >>, << "", "b" >> }

\* [url.strip() for url in raw_value.split(",") if url.strip()]
_parse_rpc_urls(raw_value) == SelectSeq(raw_value, LAMBDA url : url # "")

\* _build_network_kwargs
_build_network_kwargs(raw_value) ==
    LET urls == _parse_rpc_urls(raw_value) IN
    IF urls = << >>
    THEN [rpc_url |-> "", rpc_urls |-> << >>]
    ELSE [rpc_url |-> urls[1], rpc_urls |-> urls]

\* The loop of ensure_rpc_urls: the non-empty urls, each once, in order.
RECURSIVE unique_urls(_, _)
unique_urls(urls, seen) ==
    IF urls = << >> THEN seen
    ELSE IF Head(urls) # "" /\ \A k \in DOMAIN seen : seen[k] # Head(urls)
         THEN unique_urls(Tail(urls), Append(seen, Head(urls)))
         ELSE unique_urls(Tail(urls), seen)

\* NetworkConfig(**kwargs): the model validator ensure_rpc_urls raises
\* ValueError when no URL is left, which the constructor raises as a
\* ValidationError.
ensure_rpc_urls(kwargs) ==
    LET unique == unique_urls(<< kwargs.rpc_url >> \o kwargs.rpc_urls, << >>) IN
    IF unique = << >>
    THEN Raise("ValidationError")
    ELSE [kind |-> "config", rpc_url |-> unique[1], rpc_urls |-> unique]

\* One entry of the network_configs literal is evaluated: the NetworkConfig
\* of the next network is constructed, whichever network was asked for.
build_network_config ==
    /\ cfg_pc \in DOMAIN NetworkOrder
    /\ LET n == NetworkOrder[cfg_pc]
           r == ensure_rpc_urls(_build_network_kwargs(env[n]))
       IN  IF r.kind = "raise"
           THEN /\ config_ret' = r
                /\ cfg_pc' = 0
                /\ UNCHANGED network_configs
           ELSE /\ network_configs' = [network_configs EXCEPT ![n] = Some(r)]
                /\ cfg_pc' = cfg_pc + 1
                /\ UNCHANGED config_ret
    /\ UNCHANGED << restOfConfig, env, cfg_network >>

\* config = network_configs.get(network) and the two checks on it.
select_config ==
    /\ cfg_pc = Len(NetworkOrder) + 1
    /\ cfg_pc' = 0
    /\ LET config == network_configs[cfg_network] IN
       config_ret' =
           IF config = None THEN Raise("ValueError")
           ELSE IF (CHOOSE c \in config : TRUE).rpc_url = "" THEN Raise("ValueError")
           ELSE CHOOSE c \in config : TRUE
    /\ UNCHANGED << restOfConfig, env, cfg_network, network_configs >>

\* No call of get_network_config in the picture.
ConfigIdle ==
    /\ env = [n \in AllNetworks |-> << >>]
    /\ cfg_network = "bsc"
    /\ cfg_pc = 0
    /\ network_configs = [n \in AllNetworks |-> None]
    /\ config_ret = NoReturn

\* ------------------------------------------------------------------------
\* custom/args/usdt_to_czusd_to_tokenburningandlp_workflow.py
\* ------------------------------------------------------------------------

\* Amounts are Decimals with one digit after the point, held as a whole
\* number of tenths, up to MaxAmount tenths; random_precision up to
\* MaxPrecision.
MaxAmount == 8

MaxPrecision == 2

AmountUnit == 10

Amounts == 0..MaxAmount

\* A Decimal selected_scaled / scale, kept exact as the two numbers.
Quotient(num, den) == [num |-> num, den |-> den]

\* int((amount * scale).to_integral_value(rounding=ROUND_DOWN)) for an amount
\* that is not negative.
Scaled(amount, scale) == (amount * scale) \div AmountUnit

\* _select_swap_amount: the values it can return; random.randint draws any
\* whole number of min_scaled..max_scaled.
_select_swap_amount(minimum, maximum, precision) ==
    LET scale == 10 ^ precision
        min_scaled == Scaled(minimum, scale)
        max_scaled == Scaled(maximum, scale)
    IN  IF maximum < minimum \/ max_scaled < min_scaled
        THEN { Quotient(minimum, AmountUnit) }
        ELSE { Quotient(selected_scaled, scale) :
                   selected_scaled \in min_scaled..max_scaled }

\* if max_swap_amount < min_swap_amount: raise ValueError(...)
check_amounts ==
    /\ swap_pc = "amounts"
    /\ swap_pc' = IF input_data.max_swap_amount < input_data.min_swap_amount
                  THEN "raised" ELSE "balance"
    /\ UNCHANGED << restOfSwap, input_data, balance_decimal,
                    max_available_decimal, swap_amount_decimal >>

\* if balance_decimal < min_swap_amount: raise ValueError(...);
\* max_available_decimal = min(balance_decimal, max_swap_amount)
check_balance ==
    /\ swap_pc = "balance"
    /\ IF balance_decimal < input_data.min_swap_amount
       THEN /\ swap_pc' = "raised"
            /\ UNCHANGED max_available_decimal
       ELSE /\ swap_pc' = "select"
            /\ max_available_decimal' =
                   Some(IF balance_decimal < input_data.max_swap_amount
                        THEN balance_decimal ELSE input_data.max_swap_amount)
    /\ UNCHANGED << restOfSwap, input_data, balance_decimal, swap_amount_decimal >>

\* swap_amount_decimal = _select_swap_amount(minimum=min_swap_amount,
\*     maximum=max_available_decimal, precision=precision)
select_swap_amount ==
    /\ swap_pc = "select"
    /\ swap_pc' = "selected"
    /\ \E amount \in _select_swap_amount(input_data.min_swap_amount,
                                          CHOOSE m \in max_available_decimal : TRUE,
                                          input_data.random_precision) :
           swap_amount_decimal' = Some(amount)
    /\ UNCHANGED << restOfSwap, input_data, balance_decimal, max_available_decimal >>

\* No calculate_args in the picture.
SwapIdle ==
    /\ input_data = [min_swap_amount |-> 0, max_swap_amount |-> 0,
                     random_precision |-> 0]
    /\ balance_decimal = 0
    /\ swap_pc = "idle"
    /\ max_available_decimal = None
    /\ swap_amount_decimal = None

\* The components at rest.
OthersIdle == EngineIdle /\ ConfigIdle /\ SwapIdle

\* No execute_multi_job in progress.
ExecutorIdle ==
    /\ multi_job = [jobs |-> << >>, stop_on_failure |-> TRUE, delay_between_jobs |-> 0]
    /\ mpc = "idle"
    /\ i = 1
    /\ job_results = << >>
    /\ overall_success = TRUE
    /\ multi_ret = NoReturn
    /\ pc = "idle"
    /\ call_ret = NoReturn
    /\ tries = 0
    /\ waits = << >>
    /\ tx_hash = None
    /\ trace = << >>
    /\ started = << >>
    /\ sent = {}
    /\ sleeps = << >>
    /\ any_ret = NoReturn

\* The module-level state of scheduler.py at import: _jobs = {}.
SchedulerStart ==
    /\ _jobs = << >>
    /\ sidx = 1
    /\ triggers = << >>
    /\ executed = << >>
    /\ registered = [n \in Names |-> None]
    /\ nregs = 0
    /\ due = << >>
    /\ cycle = NoCycle
    /\ inflight = None
    /\ aborted = None
    /\ signal = None
    /\ exit_code = None

\* No scheduler in the picture.
SchedulerIdle ==
    /\ SchedulerStart
    /\ run_once = FALSE
    /\ interval = 1
    /\ spc = "idle"

SchedInit ==
    /\ ExecutorIdle
    /\ OthersIdle
    /\ WindowIdle
    /\ ServiceIdle
    /\ SchedulerStart
    /\ spc = "main"
    /\ run_once \in BOOLEAN
    /\ interval \in Intervals

SchedNext ==
    \/ register_job
    \/ main_no_jobs
    \/ run_scheduler
    \/ _schedule_all_jobs
    \/ enter_mode
    \/ run_once_step
    \/ run_once_end
    \/ run_pending
    \/ run_job
    \/ submit
    \/ finish
    \/ sleep
    \/ handle_exit_signal
    \/ default_int_handler
    \/ main_return

SchedSpec == SchedInit /\ [][SchedNext]_vars

\* TimeWindow.contains on every window and every time of day.
TwInit ==
    /\ ExecutorIdle
    /\ OthersIdle
    /\ SchedulerIdle
    /\ ServiceIdle
    /\ tw_window \in TimeWindows
    /\ tw_value \in Times
    /\ tw_result = None

TwNext == apply_contains

TwSpec == TwInit /\ [][TwNext]_vars

\* One job handed to _schedule_job and run by the engine.
EngineInit ==
    /\ ExecutorIdle
    /\ SchedulerIdle
    /\ WindowIdle
    /\ ServiceIdle
    /\ ConfigIdle
    /\ SwapIdle
    /\ schedule_parts \in EngineSchedules
    /\ epc = "start"
    /\ engine_job = None
    /\ periods = << >>

EngineNext ==
    \/ do
    \/ \E t \in engine_job : \E v \in Draw(t) : fire(v)

EngineSpec == EngineInit /\ [][EngineNext]_vars

\* get_network_config called for a network under every environment.
ConfigInit ==
    /\ ExecutorIdle
    /\ SchedulerIdle
    /\ WindowIdle
    /\ ServiceIdle
    /\ EngineIdle
    /\ SwapIdle
    /\ env \in [AllNetworks -> RawValues]
    /\ cfg_network \in AllNetworks
    /\ cfg_pc = 1
    /\ network_configs = [n \in AllNetworks |-> None]
    /\ config_ret = NoReturn

ConfigNext ==
    \/ build_network_config
    \/ select_config

ConfigSpec == ConfigInit /\ [][ConfigNext]_vars

\* calculate_args of the swap workflow on every configuration and balance.
SwapInit ==
    /\ ExecutorIdle
    /\ SchedulerIdle
    /\ WindowIdle
    /\ ServiceIdle
    /\ EngineIdle
    /\ ConfigIdle
    /\ input_data \in [min_swap_amount : Amounts, max_swap_amount : Amounts,
                        random_precision : 0..MaxPrecision]
    /\ balance_decimal \in Amounts
    /\ swap_pc = "amounts"
    /\ max_available_decimal = None
    /\ swap_amount_decimal = None

SwapNext ==
    \/ check_amounts
    \/ check_balance
    \/ select_swap_amount

SwapSpec == SwapInit /\ [][SwapNext]_vars

\* Callers of web3_provider_service.get_provider.
SvcInit ==
    /\ ExecutorIdle
    /\ OthersIdle
    /\ SchedulerIdle
    /\ WindowIdle
    /\ ServiceStart

SvcNext ==
    \/ \E c \in Callers :
           \/ get_provider(c)
           \/ acquire(c)
           \/ check_cached(c)
           \/ probe_endpoint(c)
           \/ raise_ConnectionError(c)
    \/ web3_utils_get_web3_provider

SvcSpec == SvcInit /\ [][SvcNext]_vars

\* ------------------------------------------------------------------------
\* Specification
\* ------------------------------------------------------------------------

Init ==
    /\ multi_job \in [jobs : JobLists, stop_on_failure : BOOLEAN,
                      delay_between_jobs : DelayValues]
    /\ mpc = "loop"
    /\ i = 1
    /\ job_results = << >>
    /\ overall_success = TRUE
    /\ multi_ret = NoReturn
    /\ pc = "idle"
    /\ call_ret = NoReturn
    /\ tries = 0
    /\ waits = << >>
    /\ tx_hash = None
    /\ trace = << >>
    /\ started = << >>
    /\ sent = {}
    /\ sleeps = << >>
    /\ any_ret = NoReturn
    /\ OthersIdle
    /\ SchedulerIdle
    /\ WindowIdle
    /\ ServiceIdle

Next ==
    \/ SkipDisabled
    \/ StartJob
    \/ get_web3_provider
    \/ from_key
    \/ get_contract_instance
    \/ calculate_custom_args
    \/ build_method
    \/ estimate_gas
    \/ tx_params
    \/ build_transaction
    \/ sign_transaction
    \/ send_raw_transaction
    \/ wait_for_transaction_receipt
    \/ RecordResult
    \/ InterJobDelay
    \/ LoopEnd
    \/ ReturnMulti
    \/ execute_any_job

Spec == Init /\ [][Next]_vars

\* ------------------------------------------------------------------------
\* Properties
\* ------------------------------------------------------------------------

Range(s) == { s[k] : k \in DOMAIN s }

LastOf(s) == s[Len(s)]

\* The stages the current call went through, and how its last one ended.
StagesRun == { trace[k][1] : k \in DOMAIN trace }

StageFailed ==
    /\ trace # << >>
    /\ LastOf(trace)[2] \notin {"ok", "status 1", "status 0"}

PluginFailed ==
    \E k \in DOMAIN trace : trace[k][1] = "args" /\ trace[k][2] # "ok"

SimulationRejected == <<"estimate", "ContractLogicError">> \in Range(trace)

\* C1: under stop_on_failure the recorded outcomes are those of steps 1..k
\* in order, a failing outcome is the last one recorded, the loop has then
\* been left, and no step after the failing one was started.
C1_StopOnFailureHalts ==
    multi_job.stop_on_failure =>
        /\ \A k \in DOMAIN job_results : job_results[k].name = k
        /\ \A k \in DOMAIN job_results :
               ~job_results[k].success =>
                   /\ k = Len(job_results)
                   /\ \A s \in Range(started) : s <= k
                   /\ mpc \in {"exit", "done"}
                   /\ mpc = "done" =>
                          multi_ret = MultiReturn(FALSE, job_results, None)

C1_Witness ==
    /\ mpc = "done"
    /\ multi_job.stop_on_failure
    /\ Len(jobs) = 2
    /\ jobs[2].enabled
    /\ Len(multi_ret.job_results) = 1
    /\ ~multi_ret.job_results[1].success

\* C2: with stop_on_failure=false the returned outcome list has one entry
\* per declared step.
C2_OneEntryPerStep ==
    (mpc = "done" /\ ~multi_job.stop_on_failure) =>
        Len(multi_ret.job_results) = Len(jobs)

\* C3: steps are started in declared order, none twice, and a step is
\* started only when every step started before it has its outcome recorded.
C3_InOrderOneAtATime ==
    /\ \A a, b \in DOMAIN started : a < b => started[a] < started[b]
    /\ \A a \in DOMAIN started :
           \/ \E k \in DOMAIN job_results : job_results[k].name = started[a]
           \/ a = Len(started) /\ mpc = "call" /\ started[a] = i
    /\ mpc = "call" => (started # << >> /\ LastOf(started) = i /\ pc # "idle")
    /\ mpc # "call" => pc = "idle"

C3_Witness ==
    /\ Len(started) = 2
    /\ mpc = "call"
    /\ pc = "send"
    /\ Len(job_results) = 1

\* C4: a disabled step is never started and nothing is submitted for it; its
\* outcome is the successful "skipped" one with no identifier; only a failed
\* enabled step makes overall_success false or leaves the loop early.
C4_DisabledStepSkipped ==
    /\ \A s \in Range(started) \cup sent : jobs[s].enabled
    /\ \A k \in DOMAIN job_results :
           LET r == job_results[k] IN
           (r.name \in DOMAIN jobs /\ ~jobs[r.name].enabled) =>
               r = Result(r.name, TRUE, None, ErrorText("Skipped - disabled", ""))
    /\ ~overall_success =>
           \E k \in DOMAIN job_results :
               ~job_results[k].success /\ jobs[job_results[k].name].enabled
    /\ (mpc = "exit" /\ i <= Len(jobs)) =>
           /\ job_results # << >>
           /\ ~LastOf(job_results).success
           /\ jobs[LastOf(job_results).name].enabled

C4_Witness ==
    /\ mpc = "done"
    /\ multi_job.stop_on_failure
    /\ Len(jobs) = 2
    /\ ~jobs[1].enabled
    /\ jobs[2].enabled
    /\ multi_ret.overall_success
    /\ Len(multi_ret.job_results) = 2
    /\ started = << 2 >>

\* C5: the returned overall success flag is the conjunction of the success
\* flags of the recorded outcomes.
C5_OverallIsConjunction ==
    mpc = "done" =>
        (multi_ret.overall_success
            <=> \A k \in DOMAIN multi_ret.job_results :
                    multi_ret.job_results[k].success)

\* C6: no exception leaves execute_contract_method: a call whose stage raised
\* ends by returning a failure outcome.
C6_NeverRaises ==
    /\ call_ret.kind # "raise"
    /\ (pc = "returned" /\ StageFailed) =>
           (call_ret.kind = "return" /\ ~call_ret.success)
    /\ (mpc = "done" /\ multi_ret.error # None) => started # << >>

C6_Witness ==
    /\ pc = "returned"
    /\ LastOf(trace) = <<"receipt", "TransactionNotFound">>
    /\ call_ret.kind = "return"

\* C7: when the call of the current step was submitted, the returned outcome
\* carries its identifier.
C7_SubmittedCarriesIdentifier ==
    (pc = "returned" /\ i \in sent) => call_ret.tx_hash = Some(i)

\* C8: after a plugin failure the call has returned a failure outcome without
\* an identifier, and was neither simulated, signed nor submitted.
C8_PluginFailureAborts ==
    PluginFailed =>
        /\ pc \in {"returned", "idle"}
        /\ call_ret.kind = "return"
        /\ ~call_ret.success
        /\ call_ret.tx_hash = None
        /\ StagesRun \cap {"estimate", "sign", "send", "receipt"} = {}
        /\ LastOf(started) \notin sent
        /\ jobs[LastOf(started)].custom

C8_Witness ==
    /\ PluginFailed
    /\ pc = "returned"
    /\ LastOf(trace) = <<"args", "AttributeError">>
    /\ job.validate_before_send

\* C9: a rejected simulation returns the "would fail" outcome with the
\* rejection and no identifier, nothing being signed or submitted; and under
\* validate_before_send a call is submitted only after its simulation
\* succeeded.
C9_RejectedSimulationAborts ==
    /\ SimulationRejected =>
           /\ pc \in {"returned", "idle"}
           /\ call_ret = Return(FALSE, None,
                  ErrorText("Transaction would fail: ", "ContractLogicError"))
           /\ StagesRun \cap {"sign", "send", "receipt"} = {}
           /\ LastOf(started) \notin sent
    /\ \A k \in DOMAIN trace :
           (trace[k] = <<"send", "ok">>
                /\ jobs[LastOf(started)].validate_before_send) =>
               \E j \in 1..(k - 1) : trace[j] = <<"estimate", "ok">>

C9_Witness ==
    /\ SimulationRejected
    /\ pc = "returned"
    /\ job.validate_before_send

\* C10: the outcome is a success exactly when the wait ended with a receipt
\* of status 1; a receipt of any other status gives the "Transaction failed"
\* outcome carrying the submission identifier.
C10_ClassifiedByStatus ==
    pc = "returned" =>
        /\ call_ret.kind = "return"
        /\ call_ret.success <=> LastOf(trace) = <<"receipt", "status 1">>
        /\ LastOf(trace) = <<"receipt", "status 0">> =>
               /\ call_ret = Return(FALSE, Some(i), ErrorText("Transaction failed", ""))
               /\ i \in sent

C10_Witness ==
    /\ pc = "returned"
    /\ LastOf(trace) = <<"receipt", "status 0">>
    /\ ~call_ret.success

\* How often a name was executed, and the names holding a trigger.
Executions(name) == { k \in DOMAIN executed : executed[k].name = name }

TriggerNames == { triggers[k].name : k \in DOMAIN triggers }

RunEnded == spc \in {"returned", "raised"}

\* The schedule strings of Schedules that describe a cadence the engine
\* accepts.
WellFormed ==
    { <<"every", "day", "at", "10:30">>,
      <<"every", "monday", "at", "10:30">>,
      <<"every", "5", "to", "10", "minutes">>,
      <<"every", "5", "minutes">> }

\* C11: the registry holds one entry per name, the entry of a name is the job
\* of its latest registration, and every execution under a name runs that job.
C11_LastWriteWins ==
    /\ \A a, b \in DOMAIN _jobs : _jobs[a].name = _jobs[b].name => a = b
    /\ \A n \in Names : Lookup(_jobs, n) = registered[n]
    /\ \A k \in DOMAIN executed :
           Some(executed[k].job) = registered[executed[k].name]

C11_Witness ==
    /\ nregs = 2
    /\ Len(_jobs) = 1
    /\ spc = "poll"
    /\ Len(executed) = 1
    /\ executed[1].via = "trigger"

\* C12: when a run-once run is over, every enabled entry has been executed
\* exactly once.
C12_RunOnceExecutesEnabled ==
    (run_once /\ RunEnded) =>
        \A k \in DOMAIN _jobs :
            _jobs[k].job.enabled => Cardinality(Executions(_jobs[k].name)) = 1

\* C13: an entry registered with enabled=false has no trigger and is never
\* executed, in either run mode.
C13_DisabledNeverRuns ==
    \A n \in Names :
        \A j \in registered[n] :
            ~j.enabled => (n \notin TriggerNames /\ Executions(n) = {})

C13_Witness ==
    /\ spc = "poll"
    /\ \E j \in registered["A"] : ~j.enabled /\ j.schedule \in WellFormed
    /\ \E j \in registered["B"] : j.enabled
    /\ Len(executed) = 2

\* C14: an enabled entry with an empty schedule never gets a trigger and is
\* never fired by the poll loop, and a run-once run has fired it when it is
\* over.
C14_EmptyScheduleOnlyRunOnce ==
    \A n \in Names :
        \A j \in registered[n] :
            (j.enabled /\ j.schedule = << >> /\ spc # "main") =>
                /\ n \notin TriggerNames
                /\ \A k \in Executions(n) : executed[k].via = "once"
                /\ (run_once /\ RunEnded) => Executions(n) # {}

\* C15: no schedule string makes run_scheduler fail, and once the run mode
\* has started every enabled entry with a well-formed schedule has its
\* trigger.
C15_MalformedNotFatal ==
    /\ spc # "raised"
    /\ spc \in {"once", "poll"} =>
           \A k \in DOMAIN _jobs :
               (_jobs[k].job.enabled /\ _jobs[k].job.schedule \in WellFormed) =>
                   _jobs[k].name \in TriggerNames

\* C16: a sequence with allowed_time_windows fired by its trigger runs only
\* at a time of day inside one of its windows.
C16_WindowGate ==
    \A k \in DOMAIN executed :
        (executed[k].via = "trigger"
            /\ executed[k].job.allowed_time_windows # None) =>
            executed[k].in_window

\* The times from the start of a window forward to its end, round the clock.
Walk(w) ==
    { (w.start + k) % DaySlots : k \in 0..((w.end - w.start) % DaySlots) }

ContainsCase(start, end, value, expected) ==
    (tw_window = TimeWindow(start, end) /\ tw_value = value) =>
        tw_result = Some(expected)

\* C17: contains(v) holds exactly for the times from start forward to end,
\* both included, wrapping past midnight when start is later than end.
C17_ContainsInclusiveWrap ==
    tw_result # None =>
        /\ tw_result = Some(tw_value \in Walk(tw_window))
        /\ tw_result = Some(
               \/ tw_window.start <= tw_window.end
                    /\ tw_window.start <= tw_value /\ tw_value <= tw_window.end
               \/ tw_window.start > tw_window.end
                    /\ (tw_value >= tw_window.start \/ tw_value <= tw_window.end))
        /\ tw_value \in {tw_window.start, tw_window.end} => tw_result = Some(TRUE)
        /\ ContainsCase(2, 24, 12, TRUE)
        /\ ContainsCase(2, 24, 26, FALSE)
        /\ ContainsCase(2, 24, 1, FALSE)
        /\ ContainsCase(44, 4, 46, TRUE)
        /\ ContainsCase(44, 4, 2, TRUE)
        /\ ContainsCase(44, 4, 24, FALSE)

C17_Witness ==
    /\ tw_window = TimeWindow(44, 4)
    /\ tw_value = 4
    /\ tw_result = Some(TRUE)

\* The value inside a Some.
The(opt) == CHOOSE x \in opt : TRUE

\* The calls of get_provider on record: the last one that ended on each
\* network and the ones under way.
EndedCalls == { last[n] : n \in { m \in Networks : last[m].ret # NoReturn } }

CallsUnderWay == { call[c] : c \in { d \in Callers : tpc[d] \in {"cached", "connect"} } }

\* The liveness checks a call made on providers it built itself, in order.
NewProbes(r) == SelectSeq(r.probes, LAMBDA p : p.kind = "new")

\* The call found a cached provider and its is_connected() answered True.
ConnectedCached(r) ==
    /\ r.cached # None
    /\ r.probes # << >>
    /\ r.probes[1].kind = "cached"
    /\ r.probes[1].outcome = "up"

\* C18 as stated: the second of two consecutive calls on a network whose
\* cached handle is connected returns the handle of the first, builds no
\* provider and checks the liveness of no endpoint.
C18_NoProbeOnSecondCall ==
    \A r \in EndedCalls :
        (r.before.kind = "provider" /\ ConnectedCached(r)) =>
            /\ r.ret = r.before
            /\ r.probes = << >>

\* C18 (amended): the second of two consecutive calls on a network whose
\* cached handle is connected returns the handle of the first, builds no
\* provider, and its only liveness check is the one of the cached handle.
C18_IdempotentOnHealthy ==
    \A r \in EndedCalls :
        (r.before.kind = "provider" /\ ConnectedCached(r)) =>
            /\ r.ret = r.before
            /\ r.probes = << Probe(r.before.provider.index, "cached", "up") >>

C18_Witness ==
    \E r \in EndedCalls :
        /\ r.before.kind = "provider"
        /\ ConnectedCached(r)
        /\ r.ret.kind = "provider"
        /\ nhandles = 1
        /\ ncalls = 2

\* C19: a call that finds no cached handle, or a disconnected one, checks the
\* endpoints in order from the last-good index (0 when there is none),
\* wrapping round, each at most once, and the handle it returns is bound to
\* the first of them that answered.
C19_ProbeOrderFromLastGood ==
    \A r \in EndedCalls \cup CallsUnderWay :
        LET new == NewProbes(r)
            first == IF r.active = None THEN 0 ELSE The(r.active)
        IN  /\ Len(new) <= NumEndpoints
            /\ \A k \in DOMAIN new :
                   new[k].index = (first + (k - 1)) % NumEndpoints
            /\ \A k, l \in DOMAIN new : new[k].index = new[l].index => k = l
            /\ \A k \in DOMAIN new : new[k].outcome = "up" => k = Len(new)
            /\ (r.ret.kind = "provider" /\ new # << >>) =>
                   /\ new[Len(new)].outcome = "up"
                   /\ r.ret.provider.index = new[Len(new)].index
            /\ r.ret.kind = "raise" => Len(new) = NumEndpoints

C19_Witness ==
    \E r \in EndedCalls :
        /\ r.cached # None
        /\ r.active = Some(1)
        /\ r.probes[1] = Probe(1, "cached", "down")
        /\ Len(NewProbes(r)) = NumEndpoints
        /\ NewProbes(r)[1].index = 1
        /\ r.ret.kind = "provider"
        /\ r.ret.provider.index = 0

\* C20: a reconnect that succeeds on index i leaves i as the last-good index
\* and its handle in the cache; a later call checks that handle first and, when
\* it is disconnected, checks endpoint i next; while endpoint i answers no
\* other endpoint is checked.
C20_StickyFailover ==
    /\ \A n \in Networks :
           (last[n].ret.kind = "provider" /\ NewProbes(last[n]) # << >>) =>
               /\ _active_indices[n] = Some(last[n].ret.provider.index)
               /\ _providers[n] = Some(last[n].ret.provider)
    /\ \A r \in EndedCalls \cup CallsUnderWay :
           r.cached # None =>
               LET h == The(r.cached) IN
               /\ r.active = Some(h.index)
               /\ Len(r.probes) >= 1 =>
                      (r.probes[1].kind = "cached" /\ r.probes[1].index = h.index)
               /\ Len(r.probes) >= 2 =>
                      (r.probes[2].kind = "new" /\ r.probes[2].index = h.index)
               /\ (\E k \in DOMAIN r.probes :
                       r.probes[k].index = h.index /\ r.probes[k].outcome = "up") =>
                      \A k \in DOMAIN r.probes : r.probes[k].index = h.index

C20_Witness ==
    \E r \in EndedCalls :
        /\ r.cached = Some(Web3(2, 1))
        /\ r.before = ReturnProvider(Web3(2, 1))
        /\ r.probes = << Probe(1, "cached", "up") >>
        /\ r.ret = ReturnProvider(Web3(2, 1))
        /\ nhandles = 2

\* C21: a call in which every endpoint fails its liveness check, by answering
\* False or by raising, ends with a ConnectionError that names the network
\* and the number of endpoints, after one check of each endpoint, and
\* returns no handle; a call fails in no other case.
C21_AllDeadRaises ==
    \A n \in Networks :
        LET r == last[n]
            new == NewProbes(r)
            allFailed == /\ Len(new) = NumEndpoints
                         /\ \A k \in DOMAIN new : new[k].outcome # "up"
        IN  r.ret # NoReturn =>
                /\ allFailed => r.ret = ConnectionError(n, NumEndpoints)
                /\ r.ret.kind = "raise" =>
                       /\ allFailed
                       /\ { new[k].index : k \in DOMAIN new } = rpc_urls
                       /\ r.ret.e = "ConnectionError"
                /\ r.ret.kind \in {"raise", "provider"}

C21_Witness ==
    \E n \in Networks :
        /\ last[n].ret = ConnectionError(n, NumEndpoints)
        /\ \E k \in DOMAIN last[n].probes : last[n].probes[k].outcome = "error"
        /\ \E k \in DOMAIN last[n].probes : last[n].probes[k].outcome = "down"
        /\ last[n].cached = None

\* C22: on each network at most one caller is inside the guarded block, and
\* it holds the network's lock; a caller that arrived during another
\* caller's reconnect finds the handle left in the cache by the call before
\* its own and, that handle being connected, returns it without checking any
\* endpoint of the list itself.
C22_OneReconnectPerNetwork ==
    /\ \A n \in Networks :
           /\ Cardinality(Inside(n)) <= 1
           /\ \A c \in Inside(n) : _locks[n] = c
    /\ \A r \in EndedCalls \cup CallsUnderWay :
           r.waited =>
               /\ r.before # NoReturn
               /\ r.before.kind = "provider" => r.cached = Some(r.before.provider)
               /\ (r.ret # NoReturn /\ ConnectedCached(r)) =>
                      /\ r.ret = ReturnProvider(The(r.cached))
                      /\ NewProbes(r) = << >>

C22_Witness ==
    \E r \in EndedCalls :
        /\ r.waited
        /\ r.before.kind = "provider"
        /\ r.before.provider.index = 1
        /\ ConnectedCached(r)
        /\ r.ret = r.before
        /\ ncalls = 2

\* C23: an execution under way when a termination signal arrives is
\* completed, never cut short, and no execution is under way or started once
\* the signal has been handled.
C23_SignalWaitsForInFlight ==
    /\ aborted = None
    /\ signal # None => inflight = None

\* C24: main returns 130 when a signal stopped the process, 0 when
\* run_scheduler returned without one, and 1 otherwise (no job selected, or
\* an error that nothing handled).
C24_ExitCodes ==
    exit_code # None =>
        exit_code = Some(IF signal # None THEN 130
                         ELSE IF spc = "returned" THEN 0
                         ELSE 1)

\* C25: a failed execution stops nothing: when a poll cycle is over every
\* entry that was due in it has been executed, in order; the poll loop ends
\* only on a signal; and a run-once pass that no signal cut short has
\* executed every enabled entry exactly once.
C25_FailuresIsolated ==
    /\ spc = "poll" =>
           /\ Len(cycle.done) <= Len(cycle.due)
           /\ cycle.done = SubSeq(cycle.due, 1, Len(cycle.done))
           /\ due = SubSeq(cycle.due, Len(cycle.done) + 1, Len(cycle.due))
           /\ (due = << >> /\ inflight = None) => cycle.done = cycle.due
    /\ (spc = "returned" /\ ~run_once /\ SleepOutcome(interval) = "slept") =>
           signal # None
    /\ (spc = "returned" /\ run_once /\ signal = None) =>
           \A k \in DOMAIN _jobs :
               _jobs[k].job.enabled =>
                   Cardinality(Executions(_jobs[k].name)) = 1

C25_Witness ==
    /\ spc = "poll"
    /\ Len(cycle.due) = 2
    /\ cycle.done = cycle.due
    /\ Len(executed) = 2
    /\ ~executed[1].success
    /\ executed[2].name # executed[1].name

\* The executor went on to another iteration after step k.
WentOn(k) == i > k

C27_SkipDelaysLikeSuccess ==
    \A k \in DOMAIN job_results :
        (multi_job.delay_between_jobs > 0 /\ job_results[k].success
            /\ job_results[k].name < Len(jobs) /\ WentOn(job_results[k].name)) =>
            job_results[k].name \in Range(sleeps)

\* C28: the connection of a job execution comes from the failover service:
\* a handle the executor gets is the one in the service's cache for the
\* network, and the executor is refused a connection only after every
\* endpoint of the network has been checked.
C28_ExecutorUsesService ==
    /\ econn.ret.kind = "provider" =>
           _providers[econn.network] = Some(econn.ret.provider)
    /\ econn.ret.kind = "raise" =>
           { econn.probes[k].index : k \in DOMAIN econn.probes } = rpc_urls

\* C29: a caller at the guard of a network enters as soon as no caller is
\* inside that network's block, whatever is in progress on another network,
\* and a network's lock is held only by a caller inside that network's block.
C29_GuardPerNetwork ==
    /\ \A d \in Callers :
           (tpc[d] = "with" /\ Inside(tnet[d]) = {}) => ENABLED acquire(d)
    /\ \A n \in Networks :
           _locks[n] \in Callers => _locks[n] \in Inside(n)

C29_Witness ==
    \E c, d \in Callers :
        /\ tnet[c] = "bsc"
        /\ tpc[c] = "connect"
        /\ call[c].probes # << >>
        /\ tnet[d] = "polygon"
        /\ tpc[d] = "cached"
        /\ _locks["polygon"] = d

\* C30: a call that finds the cached connection healthy returns it without
\* having taken the network's lock.
C30_HealthyPathUnguarded ==
    \A r \in EndedCalls : ConnectedCached(r) => ~r.locked

\* C31: an exception other than an interrupt does not end the poll loop: the
\* loop, once entered, is left only when a signal has arrived, so the
\* triggers stay in place and later due jobs are still fired.
C31_OnlyInterruptStopsLoop ==
    (~run_once /\ spc = "returned") => signal # None

\* C32: the receipt wait makes at most ReceiptTries attempts; it goes on to
\* another attempt only after "not yet found" or a connectivity error, having
\* slept 5 s after the first failed attempt and 10 s after the second; any
\* other error ends the wait where it occurs; and the error that ends the
\* wait is the error of the call's failed outcome.
C32_ReceiptRetry ==
    /\ tries <= ReceiptTries
    /\ Len(waits) <= 2
    /\ \A k \in DOMAIN waits : waits[k] = IF k = 1 THEN 5 ELSE 10
    /\ LET attempts == { k \in DOMAIN trace : trace[k][1] = "receipt" }
       IN  /\ Cardinality(attempts) = tries
           /\ \A k \in attempts :
                  k < Len(trace) =>
                      /\ trace[k][2] \in RetryableErrors
                      /\ Len(waits) >= Cardinality({ j \in attempts : j <= k })
           /\ (pc = "returned" /\ attempts # {}) =>
                  /\ Len(waits) = tries - 1
                  /\ LastOf(trace)[2] \in RetryableErrors => tries = ReceiptTries
                  /\ LastOf(trace)[2] \notin {"status 1", "status 0"} =>
                         /\ ~call_ret.success
                         /\ call_ret.error = ErrorText("", LastOf(trace)[2])

C32_Witness ==
    /\ pc = "returned"
    /\ waits = << 5, 10 >>
    /\ tries = ReceiptTries
    /\ LastOf(trace) = <<"receipt", "ConnectionError">>
    /\ call_ret = Return(FALSE, None, ErrorText("", "ConnectionError"))

\* C33: no execution is repeated within a firing: in a poll cycle the due
\* triggers are distinct and the executions of the cycle are those of a
\* prefix of them, one each, failed or not; a run-once pass executes no name
\* twice; and an execution under way submits its call at most once.
C33_NoReinvocation ==
    /\ [](/\ run_once => \A n \in Names : Cardinality(Executions(n)) <= 1
          /\ \A a, b \in DOMAIN cycle.due :
                 cycle.due[a] = cycle.due[b] => a = b
          /\ Len(cycle.done) <= Len(cycle.due)
          /\ Len(cycle.done) <= Len(executed)
          /\ \A k \in DOMAIN cycle.done :
                 /\ cycle.done[k] = cycle.due[k]
                 /\ executed[Len(executed) - Len(cycle.done) + k].name
                        = cycle.done[k])
    /\ [][(inflight # None /\ inflight' # None /\ inflight' # inflight) =>
              /\ The(inflight).stage = "running"
              /\ inflight' = { [e EXCEPT !.stage = "submitted"] : e \in inflight }
         ]_vars

C33_Witness ==
    /\ spc = "poll"
    /\ cycle.due = << "A", "B" >>
    /\ cycle.done = << "A" >>
    /\ Len(executed) = 1
    /\ ~executed[1].success
    /\ inflight # None
    /\ The(inflight).name = "B"
    /\ The(inflight).stage = "submitted"

\* A well-formed `every N to M <unit>` schedule.
EveryToWellFormed(parts) ==
    /\ Len(parts) = 5
    /\ parts[1] = "every"
    /\ parts[3] = "to"
    /\ IsInt(parts[2])
    /\ IsInt(parts[4])
    /\ IntOf[parts[2]] <= IntOf[parts[4]]
    /\ parts[5] \in DOMAIN Units

\* C34: for a well-formed `every N to M <unit>` schedule the engine holds a
\* trigger of that unit, every interval it drew lies in N..M, and after
\* each firing every value of N..M can be the next interval, whatever the
\* intervals before were.
C34_IntervalRedrawnInRange ==
    EveryToWellFormed(schedule_parts) =>
        LET N == IntOf[schedule_parts[2]]
            M == IntOf[schedule_parts[4]]
        IN  /\ epc \in {"start", "scheduled"}
            /\ epc = "scheduled" =>
                   /\ (CHOOSE t \in engine_job : TRUE).cadence
                          = Units[schedule_parts[5]]
                   /\ periods # << >>
                   /\ \A k \in DOMAIN periods : periods[k] \in N..M
                   /\ Len(periods) < MaxDraws =>
                          \A v \in N..M : ENABLED fire(v)

C34_Witness ==
    /\ schedule_parts = <<"every", "5", "to", "10", "minutes">>
    /\ epc = "scheduled"
    /\ Len(periods) = 3
    /\ periods[1] = 5
    /\ periods[2] = 10
    /\ periods[3] = 7

\* C35: the recorded outcomes are at every moment those of steps 1..k of the
\* declared list, one each and in order, with k at most the number of steps;
\* under stop_on_failure a failing outcome is the last one recorded; and the
\* list returned is the list recorded.
C35_OutcomesArePrefix ==
    /\ Len(job_results) <= Len(jobs)
    /\ \A k \in DOMAIN job_results : job_results[k].name = k
    /\ multi_job.stop_on_failure =>
           \A k \in DOMAIN job_results :
               ~job_results[k].success => k = Len(job_results)
    /\ mpc = "done" => multi_ret.job_results = job_results

C35_Witness ==
    /\ mpc = "done"
    /\ ~multi_job.stop_on_failure
    /\ Len(jobs) = 2
    /\ Len(multi_ret.job_results) = 1
    /\ ~multi_ret.job_results[1].success
    /\ multi_ret.error = ErrorText("", "ValueError")

\* C36: the summary agrees with the outcomes: a sequence reported as failed
\* counts at least one failed step, and one reported as completed counts as
\* many successful steps as recorded outcomes.
C36_SummaryAgrees ==
    any_ret.kind = "return" =>
        LET summary == The(any_ret.tx_hash) IN
        IF any_ret.success
        THEN summary.n = summary.m
        ELSE summary.k >= 1

\* C37: after a call that ended in ConnectionError the network's cached
\* handle and last-good index are what the call found, its lock is free once
\* nobody is inside, a caller waiting at the lock can enter, and a later call
\* that comes to probe starts from the same index.
C37_FailureChangesNothing ==
    \A n \in Networks :
        last[n].ret.kind = "raise" =>
            /\ _providers[n] = last[n].cached
            /\ _active_indices[n] = last[n].active
            /\ Inside(n) = {} => _locks[LockOf(n)] = "free"
            /\ \A d \in Callers :
                   /\ (tpc[d] = "with" /\ tnet[d] = n /\ Inside(n) = {}) =>
                          ENABLED acquire(d)
                   /\ (tpc[d] = "connect" /\ tnet[d] = n) =>
                          start_index[d] = StartIndex(last[n].active)

C37_Witness ==
    \E n \in Networks, d \in Callers :
        /\ last[n].ret.kind = "raise"
        /\ last[n].cached # None
        /\ last[n].active = Some(1)
        /\ tpc[d] = "connect"
        /\ tnet[d] = n
        /\ start_index[d] = 1

\* C38: a recorded last-good index is an index of the endpoint list, and a
\* cached handle is bound to the endpoint at the recorded index.
C38_IndexValidAndBound ==
    \A n \in Networks :
        /\ _active_indices[n] \subseteq rpc_urls
        /\ _providers[n] # None =>
               _active_indices[n] = Some(The(_providers[n]).index)

C38_Witness ==
    \E n, m \in Networks :
        /\ _providers[n] # None
        /\ _providers[m] # None
        /\ _active_indices[n] = Some(NumEndpoints - 1)
        /\ _active_indices[m] = Some(1)
        /\ last[n].ret.kind = "raise"

\* C39: get_network_config returns the configuration of the network asked
\* for whenever that network's own variable holds at least one URL, whatever
\* the variables of the other networks hold.
C39_ResolvesWhenConfigured ==
    (cfg_pc = 0 /\ config_ret # NoReturn
        /\ _parse_rpc_urls(env[cfg_network]) # << >>) =>
        /\ config_ret.kind = "config"
        /\ config_ret.rpc_url = _parse_rpc_urls(env[cfg_network])[1]

\* C40: the amount _select_swap_amount returns to calculate_args is at least
\* min_swap_amount and at most the smaller of the balance and
\* max_swap_amount.
C40_SwapAmountInRange ==
    swap_amount_decimal # None =>
        LET amount == The(swap_amount_decimal) IN
        /\ amount.num * AmountUnit >= input_data.min_swap_amount * amount.den
        /\ amount.num * AmountUnit <= balance_decimal * amount.den
        /\ amount.num * AmountUnit <= input_data.max_swap_amount * amount.den

====
